---------------------------- MODULE Spec2Model ----------------------------
(***************************************************************************)
(* Model of waypoint-schemas' Meilisearch helpers                          *)
(* (src/src/helpers/meilisearch.rs): the UserProfile <-> UserProfileDocument*)
(* conversions with the updated_at fallback chain, the fixed schema, and   *)
(* the three store operations apply_user_profile_schema,                   *)
(* batch_create_user_profiles and search_user_profiles.                    *)
(*                                                                         *)
(* Strings whose characters the code inspects (updated_at, error messages) *)
(* are sequences of one-character strings.  A u64 is kept at its full      *)
(* width as three base-10^7 limbs <<hi, mid, lo>>, since the model         *)
(* checker's integers are 32 bits wide.                                    *)
(***************************************************************************)
EXTENDS Integers, Sequences, FiniteSets

VARIABLES store, now, last, prev, conv

vars == <<store, now, last, prev, conv>>

----------------------------------------------------------------------------
(* Result and Option values. *)

Ok(v) == [ok |-> TRUE, val |-> v]

Err(e) == [ok |-> FALSE, err |-> e]

Some(x) == [some |-> TRUE, val |-> x]

None == [some |-> FALSE]

----------------------------------------------------------------------------
(* Characters and substrings. *)

DigitChars == <<"0", "1", "2", "3", "4", "5", "6", "7", "8", "9">>

IsDigit(c) == \E i \in 1..10 : DigitChars[i] = c

DigitVal(c) == (CHOOSE i \in 1..10 : DigitChars[i] = c) - 1

DigitChar(d) == DigitChars[d + 1]

(* str::contains: pat occurs in s as a contiguous substring. *)
contains(s, pat) ==
  \E i \in 1..(Len(s) - Len(pat) + 1) : SubSeq(s, i, i + Len(pat) - 1) = pat

----------------------------------------------------------------------------
(* u64 arithmetic on limbs. *)

LimbBase == 10 ^ 7

U64_MAX == <<184467, 4407370, 9551615>>

U64Leq(a, b) ==
  \/ a[1] < b[1]
  \/ a[1] = b[1] /\ a[2] < b[2]
  \/ a[1] = b[1] /\ a[2] = b[2] /\ a[3] <= b[3]

(* The u64 holding a natural number small enough for one machine integer. *)
U64FromNat(n) == <<0, n \div LimbBase, n % LimbBase>>

(* u64::checked_mul(10): None on overflow. *)
checked_mul10(u) ==
  LET l == u[3] * 10
      m == u[2] * 10 + (l \div LimbBase)
      h == u[1] * 10 + (m \div LimbBase)
      r == <<h, m % LimbBase, l % LimbBase>>
  IN  IF U64Leq(r, U64_MAX) THEN Some(r) ELSE None

(* u64::checked_add of one digit: None on overflow. *)
checked_add(u, d) ==
  LET l == u[3] + d
      m == u[2] + (l \div LimbBase)
      h == u[1] + (m \div LimbBase)
      r == <<h, m % LimbBase, l % LimbBase>>
  IN  IF U64Leq(r, U64_MAX) THEN Some(r) ELSE None

(* Quotient and remainder of a u64 by ten. *)
DivMod10(u) ==
  LET h  == u[1] \div 10
      rm == (u[1] % 10) * LimbBase + u[2]
      m  == rm \div 10
      rl == (rm % 10) * LimbBase + u[3]
  IN  [quot |-> <<h, m, rl \div 10>>, rem |-> rl % 10]

(* `x as u64` for an i64 x: negative values wrap modulo 2^64. *)
as_u64(x) ==
  IF x >= 0
  THEN U64FromNat(x)
  ELSE LET n  == U64FromNat((-x) - 1)
           l  == U64_MAX[3] - n[3]
           bl == IF l < 0 THEN 1 ELSE 0
           m  == U64_MAX[2] - n[2] - bl
           bm == IF m < 0 THEN 1 ELSE 0
       IN  <<U64_MAX[1] - n[1] - bm, m + bm * LimbBase, l + bl * LimbBase>>

----------------------------------------------------------------------------
(* u64 <-> decimal text. *)

RECURSIVE to_string(_)
(* u64::to_string: the decimal digits, most significant first, no sign,    *)
(* no leading zeros, "0" for zero.                                         *)
to_string(u) ==
  LET qr == DivMod10(u)
  IN  IF qr.quot = <<0, 0, 0>>
      THEN <<DigitChar(qr.rem)>>
      ELSE Append(to_string(qr.quot), DigitChar(qr.rem))

RECURSIVE ParseDigits(_, _)
(* The digit loop of u64::from_str: acc * 10 + digit, both checked. *)
ParseDigits(s, acc) ==
  IF s = <<>> THEN Ok(acc)
  ELSE IF ~IsDigit(Head(s)) THEN Err("InvalidDigit")
  ELSE LET mul == checked_mul10(acc)
       IN  IF ~mul.some THEN Err("PosOverflow")
           ELSE LET add == checked_add(mul.val, DigitVal(Head(s)))
                IN  IF ~add.some THEN Err("PosOverflow")
                    ELSE ParseDigits(Tail(s), add.val)

(* str::parse::<u64>: an optional leading '+', then one or more digits. *)
parse_u64(s) ==
  IF s = <<>> THEN Err("Empty")
  ELSE IF s = <<"+">> \/ s = <<"-">> THEN Err("InvalidDigit")
  ELSE IF Head(s) = "+" THEN ParseDigits(Tail(s), <<0, 0, 0>>)
  ELSE ParseDigits(s, <<0, 0, 0>>)

----------------------------------------------------------------------------
(* chrono's date-time parsers, on the fixed-width layout                   *)
(* YYYY-MM-DD<sep>HH:MM:SS[.digits]<offset> and for years whose epoch      *)
(* seconds fit one machine integer.                                        *)

AllDigits(s, i, j) == \A k \in i..j : IsDigit(s[k])

Num2(s, i) == DigitVal(s[i]) * 10 + DigitVal(s[i + 1])

Num4(s, i) == Num2(s, i) * 100 + Num2(s, i + 2)

IsLeap(y) == (y % 4 = 0 /\ y % 100 # 0) \/ y % 400 = 0

DaysInMonth(y, m) ==
  IF m = 2 THEN (IF IsLeap(y) THEN 29 ELSE 28)
  ELSE IF m \in {4, 6, 9, 11} THEN 30 ELSE 31

(* Days from 1970-01-01 to the civil date y-m-d (proleptic Gregorian). *)
DaysFromCivil(y, m, d) ==
  LET yy  == IF m <= 2 THEN y - 1 ELSE y
      era == yy \div 400
      yoe == yy - era * 400
      mp  == IF m > 2 THEN m - 3 ELSE m + 9
      doy == ((153 * mp + 2) \div 5) + d - 1
      doe == yoe * 365 + (yoe \div 4) - (yoe \div 100) + doy
  IN  era * 146097 + doe - 719468

(* The local date and time of the six numbers read, in seconds from the   *)
(* epoch, with the input left over.                                        *)
Civil(y, m, d, h, mi, sec, rest) ==
  IF /\ m \in 1..12 /\ d \in 1..DaysInMonth(y, m)
     /\ h <= 23 /\ mi <= 59 /\ sec <= 60
  THEN Ok([secs |-> DaysFromCivil(y, m, d) * 86400 + h * 3600 + mi * 60
                    + (IF sec = 60 THEN 59 ELSE sec),
           rest |-> rest])
  ELSE Err("OutOfRange")

(* The date and time of day at the front of s; seps are the characters     *)
(* accepted between them.                                                  *)
ScanNaive(s, seps) ==
  IF /\ Len(s) >= 19
     /\ AllDigits(s, 1, 4) /\ s[5] = "-" /\ AllDigits(s, 6, 7) /\ s[8] = "-"
     /\ AllDigits(s, 9, 10) /\ s[11] \in seps
     /\ AllDigits(s, 12, 13) /\ s[14] = ":" /\ AllDigits(s, 15, 16)
     /\ s[17] = ":" /\ AllDigits(s, 18, 19)
  THEN Civil(Num4(s, 1), Num2(s, 6), Num2(s, 9),
             Num2(s, 12), Num2(s, 15), Num2(s, 18), SubSeq(s, 20, Len(s)))
  ELSE Err("Invalid")

RECURSIVE SkipDigits(_)
SkipDigits(s) == IF s # <<>> /\ IsDigit(Head(s)) THEN SkipDigits(Tail(s)) ELSE s

(* An optional fraction of a second: '.' and at least one digit. *)
ScanFraction(s) ==
  IF s # <<>> /\ Head(s) = "."
  THEN IF Len(s) >= 2 /\ IsDigit(s[2]) THEN Ok(SkipDigits(Tail(s))) ELSE Err("Invalid")
  ELSE Ok(s)

RECURSIVE SkipColons(_)
(* scan::colon_or_space: any run of ':' and spaces, possibly empty. *)
SkipColons(s) ==
  IF s # <<>> /\ Head(s) \in {":", " "} THEN SkipColons(Tail(s)) ELSE s

(* The separator between an offset's hours and minutes: a colon when one  *)
(* is required, any run of colons and spaces otherwise.                    *)
ScanSeparator(s, colonRequired) ==
  IF colonRequired
  THEN (IF s # <<>> /\ Head(s) = ":" THEN Ok(Tail(s)) ELSE Err("Invalid"))
  ELSE Ok(SkipColons(s))

(* The two-digit minutes of an offset, after its separator. *)
ScanMinutes(sign, hh, r) ==
  IF ~r.ok THEN r
  ELSE IF Len(r.val) >= 2 /\ AllDigits(r.val, 1, 2)
  THEN IF Num2(r.val, 1) <= 59 /\ hh <= 23
       THEN Ok([east |-> sign * (hh * 3600 + Num2(r.val, 1) * 60),
                rest |-> SubSeq(r.val, 3, Len(r.val))])
       ELSE Err("OutOfRange")
  ELSE Err("Invalid")

(* scan::timezone_offset: sign, two-digit hours, the separator the caller  *)
(* asks for, two-digit minutes; seconds east of UTC.                       *)
ScanOffset(s, colonRequired) ==
  IF Len(s) >= 3 /\ s[1] \in {"+", "-"} /\ AllDigits(s, 2, 3)
  THEN ScanMinutes(IF s[1] = "+" THEN 1 ELSE -1, Num2(s, 2),
                   ScanSeparator(SubSeq(s, 4, Len(s)), colonRequired))
  ELSE Err("Invalid")

(* The zone after the seconds: 'Z' or 'z' where the format allows it,     *)
(* an offset otherwise.                                                    *)
ScanZone(fr, allowZ, colonRequired) ==
  IF ~fr.ok THEN fr
  ELSE IF allowZ /\ fr.val # <<>> /\ Head(fr.val) \in {"Z", "z"}
  THEN Ok([east |-> 0, rest |-> Tail(fr.val)])
  ELSE ScanOffset(fr.val, colonRequired)

(* The instant (epoch seconds, an i64) of local seconds and an offset with *)
(* no input left over.                                                     *)
Resolve(secs, off) ==
  IF ~off.ok THEN off
  ELSE IF off.val.rest # <<>> THEN Err("TooLong")
  ELSE Ok(secs - off.val.east)

(* The items after the date and time of day: the fraction where the        *)
(* format has one, then the zone.                                          *)
ScanItems(naive, frac, allowZ, colonRequired) ==
  IF ~naive.ok THEN naive
  ELSE Resolve(naive.val.secs,
               ScanZone(IF frac THEN ScanFraction(naive.val.rest) ELSE Ok(naive.val.rest),
                        allowZ, colonRequired))

(* DateTime::parse_from_rfc3339(s).map(|dt| dt.timestamp()) *)
parse_from_rfc3339(s) == ScanItems(ScanNaive(s, {"T", "t", " "}), TRUE, TRUE, TRUE)

(* The four patterns of the fallback sequence: whether %.f is present and  *)
(* whether the offset is written %:z or %z.                                *)
FMT_F_COLON == [frac |-> TRUE, colon |-> TRUE]

FMT_F_PLAIN == [frac |-> TRUE, colon |-> FALSE]

FMT_COLON == [frac |-> FALSE, colon |-> TRUE]

FMT_PLAIN == [frac |-> FALSE, colon |-> FALSE]

(* DateTime::parse_from_str(s, fmt).map(|dt| dt.timestamp()) for           *)
(* "%Y-%m-%dT%H:%M:%S" followed by fmt's items.  When parsing, %:z and %z  *)
(* both take the offset with or without its colon.                         *)
parse_from_str(s, fmt) == ScanItems(ScanNaive(s, {"T"}), fmt.frac, FALSE, FALSE)

(* Result::or_else: r when it is Ok, the alternative otherwise. *)
or_else(r, alt) == IF r.ok THEN r ELSE alt

(* Result::unwrap_or_else: r's value when it is Ok, the alternative        *)
(* otherwise.                                                              *)
unwrap_or_else(r, alt) == IF r.ok THEN r.val ELSE alt

(* .map(|dt| dt.timestamp() as u64) *)
map_timestamp(r) == IF r.ok THEN Ok(as_u64(r.val)) ELSE r

----------------------------------------------------------------------------
(* UserProfile (the wire record) and UserProfileDocument (the store's      *)
(* document), and the two conversions between them.                        *)

OptNames ==
  {"display_name", "username", "pfp_url", "bio", "url", "location", "twitter", "github"}

UserProfile(id, fid, opt, updated_at) ==
  [id |-> id, fid |-> fid,
   display_name |-> opt["display_name"], username |-> opt["username"],
   pfp_url |-> opt["pfp_url"], bio |-> opt["bio"], url |-> opt["url"],
   location |-> opt["location"], twitter |-> opt["twitter"], github |-> opt["github"],
   updated_at |-> updated_at]

(* A document has the fields of a profile, with updated_at a string. *)
UserProfileDocument(id, fid, opt, updated_at) == UserProfile(id, fid, opt, updated_at)

(* UserProfileDocument::from writing the fid where updated_at belongs. *)
UserProfileDocument_from_fid(proto) ==
  [id |-> proto.id,
   fid |-> proto.fid,
   display_name |-> proto.display_name,
   username |-> proto.username,
   pfp_url |-> proto.pfp_url,
   bio |-> proto.bio,
   url |-> proto.url,
   location |-> proto.location,
   twitter |-> proto.twitter,
   github |-> proto.github,
   updated_at |-> to_string(proto.fid)]

(* impl From<UserProfile> for UserProfileDocument *)
UserProfileDocument_from(proto) ==
  [id |-> proto.id,
   fid |-> proto.fid,
   display_name |-> proto.display_name,
   username |-> proto.username,
   pfp_url |-> proto.pfp_url,
   bio |-> proto.bio,
   url |-> proto.url,
   location |-> proto.location,
   twitter |-> proto.twitter,
   github |-> proto.github,
   updated_at |-> to_string(proto.updated_at)]

INVALID == <<"i", "n", "v", "a", "l", "i", "d">>

(* Steps 1 and 2 of the updated_at chain: parse::<u64>, or_else the        *)
(* date-time formats when the string has a 'T' and a '+'.                  *)
parse_updated_at(s) ==
  or_else(parse_u64(s),
    IF contains(s, <<"T">>) /\ contains(s, <<"+">>)
    THEN or_else(map_timestamp(parse_from_rfc3339(s)),
           map_timestamp(
             or_else(or_else(or_else(parse_from_str(s, FMT_F_COLON),
                                     parse_from_str(s, FMT_F_PLAIN)),
                             parse_from_str(s, FMT_COLON)),
                     parse_from_str(s, FMT_PLAIN))))
    ELSE Err(parse_from_rfc3339(INVALID).err))

(* UserProfile::from with username copied from display_name. *)
UserProfile_from_swapped(doc, clock) ==
  [id |-> doc.id,
   fid |-> doc.fid,
   display_name |-> doc.display_name,
   username |-> doc.display_name,
   pfp_url |-> doc.pfp_url,
   bio |-> doc.bio,
   url |-> doc.url,
   location |-> doc.location,
   twitter |-> doc.twitter,
   github |-> doc.github,
   updated_at |-> unwrap_or_else(parse_updated_at(doc.updated_at), as_u64(clock))]

(* UserProfile::from with unwrap_or_default in place of the clock. *)
UserProfile_from_default(doc, clock) ==
  [id |-> doc.id,
   fid |-> doc.fid,
   display_name |-> doc.display_name,
   username |-> doc.username,
   pfp_url |-> doc.pfp_url,
   bio |-> doc.bio,
   url |-> doc.url,
   location |-> doc.location,
   twitter |-> doc.twitter,
   github |-> doc.github,
   updated_at |-> unwrap_or_else(parse_updated_at(doc.updated_at), <<0, 0, 0>>)]

(* impl From<UserProfileDocument> for UserProfile; clock is what           *)
(* Utc::now().timestamp() returns when the conversion reads it.            *)
UserProfile_from(doc, clock) ==
  [id |-> doc.id,
   fid |-> doc.fid,
   display_name |-> doc.display_name,
   username |-> doc.username,
   pfp_url |-> doc.pfp_url,
   bio |-> doc.bio,
   url |-> doc.url,
   location |-> doc.location,
   twitter |-> doc.twitter,
   github |-> doc.github,
   updated_at |-> unwrap_or_else(parse_updated_at(doc.updated_at), as_u64(clock))]

----------------------------------------------------------------------------
(* The inputs the conversions are run on. *)

AllNone == [f \in OptNames |-> None]

AllSet == [f \in OptNames |-> Some(f)]

AllEmpty == [f \in OptNames |-> Some("")]

OptPatterns ==
  {AllNone, AllSet, AllEmpty}
    \cup {[AllNone EXCEPT ![f] = Some(f)] : f \in OptNames}
    \cup {[AllSet EXCEPT ![f] = None] : f \in OptNames}

Timestamps ==
  {<<0, 0, 0>>, <<0, 0, 9>>, <<0, 1, 0>>, U64FromNat(1646092800), U64_MAX}

Profiles ==
  {UserProfile("1", U64FromNat(1), opt, t) : opt \in OptPatterns, t \in Timestamps}

D2022 == <<"2", "0", "2", "2", "-", "0", "3", "-", "0", "1">>

D1969 == <<"1", "9", "6", "9", "-", "1", "2", "-", "3", "1">>

D2024 == <<"2", "0", "2", "4", "-", "0", "2", "-", "2", "9">>

T0 == <<"0", "0", ":", "0", "0", ":", "0", "0">>

T1 == <<"2", "3", ":", "5", "9", ":", "5", "9">>

Dates == {D2022, D1969, D2024}

Times == {T0, T1}

Fractions ==
  { <<>>,
    <<".", "1", "2", "3">>,
    <<".", "1", "2", "3", "4", "5", "6">> }

PlusOffsets ==
  { <<"+", "0", "0", ":", "0", "0">>,
    <<"+", "0", "0", "0", "0">>,
    <<"+", "0", "5", ":", "3", "0">> }

MinusOffsets ==
  { <<"-", "0", "5", ":", "0", "0">>,
    <<"-", "0", "5", "0", "0">> }

(* Well-formed date-times with an offset written +HH:MM, +HHMM, -HH:MM or  *)
(* -HHMM, with and without fractional seconds.                             *)
OffsetDateTimes ==
  {d \o <<"T">> \o t \o f \o o :
     d \in Dates, t \in Times, f \in Fractions, o \in PlusOffsets \cup MinusOffsets}

NOT_A_TIMESTAMP ==
  <<"n", "o", "t", "-", "a", "-", "t", "i", "m", "e", "s", "t", "a", "m", "p">>

OddStrings ==
  { <<>>,
    NOT_A_TIMESTAMP,
    <<"+", "5">>,
    <<"-", "5">>,
    <<"0", "0", "7">>,
    <<"1", "2", "a">>,
    <<"1", "6", "4", "6", "0", "9", "2", "8", "0", "0">>,
    <<"1", "8", "4", "4", "6", "7", "4", "4", "0", "7", "3", "7", "0", "9", "5", "5", "1", "6", "1", "5">>,
    <<"1", "8", "4", "4", "6", "7", "4", "4", "0", "7", "3", "7", "0", "9", "5", "5", "1", "6", "1", "6">>,
    <<"9", "9", "9", "9", "9", "9", "9", "9", "9", "9", "9", "9", "9", "9", "9", "9", "9", "9", "9", "9">>,
    <<"T", "+">>,
    D2022 \o <<"T">> \o T0 \o <<"Z">>,
    D2022 \o <<"t">> \o T0 \o <<"+", "0", "0", ":", "0", "0">>,
    D2022 \o <<" ">> \o T0 \o <<"+", "0", "0", ":", "0", "0">>,
    <<"2", "0", "2", "2", "-", "0", "2", "-", "3", "0">> \o <<"T">> \o T0 \o <<"+", "0", "0", ":", "0", "0">>,
    D2022 \o <<"T">> \o T0,
    D2022 \o <<"T">> \o T0 \o <<"+", "0", "0", ":", "0", "0", "x">>,
    D2022 \o <<"T">> \o T0 \o <<".", "+", "0", "0", ":", "0", "0">>,
    D2022 \o <<"T">> \o T0 \o <<"+", "2", "4", ":", "0", "0">> }

StoreStrings == OffsetDateTimes \cup OddStrings

(* Documents as a store may hand them back. *)
Documents ==
  {UserProfileDocument("1", U64FromNat(1), AllSet, s) : s \in StoreStrings}
    \cup {UserProfileDocument("2", U64FromNat(2), opt, NOT_A_TIMESTAMP) : opt \in OptPatterns}

----------------------------------------------------------------------------
(* State.  store is the search store.  now is the wall clock in epoch      *)
(* seconds.  last is the latest invocation of a store operation: its       *)
(* argument, its result, the store calls it issued, the tracing events it  *)
(* emitted and the clock it read; prev sums up the one before it.  conv is *)
(* the latest conversion run on its own: its argument, its result, the     *)
(* events it emitted, the clock it read and, in "of", the profile whose     *)
(* forward conversion produced the document it was given, if any.          *)

NowStart == 1700000000

MaxTicks == 2

Invocation(op, arg, result, calls, logs) ==
  [op |-> op, arg |-> arg, result |-> result, calls |-> calls, logs |-> logs, clock |-> now]

Idle ==
  [op |-> "none", arg |-> <<>>, result |-> <<>>, calls |-> <<>>, logs |-> <<>>, clock |-> 0]

(* What prev keeps of an invocation: the operation and whether it         *)
(* succeeded.                                                              *)
Summary(inv) == [op |-> inv.op, ok |-> inv.op # "none" /\ inv.result.ok]

Conversion(op, arg, result, of) ==
  [op |-> op, arg |-> arg, result |-> result, of |-> of, logs |-> <<>>, clock |-> now]

NoConversion ==
  [op |-> "none", arg |-> <<>>, result |-> <<>>, of |-> None, logs |-> <<>>, clock |-> 0]

EmptyStore == [index |-> FALSE, settings |-> None, docs |-> <<>>]

Init ==
  /\ store = EmptyStore
  /\ now = NowStart
  /\ last = Idle
  /\ prev = Summary(Idle)
  /\ conv = NoConversion

(* The wall clock advances. *)
Tick ==
  /\ now < NowStart + MaxTicks
  /\ now' = now + 1
  /\ UNCHANGED <<store, last, prev, conv>>

(* UserProfileDocument::from(profile) on its own. *)
Forward ==
  \E p \in Profiles :
    /\ conv' = Conversion("forward", p, UserProfileDocument_from(p), None)
    /\ UNCHANGED <<store, now, last, prev>>

(* UserProfile::from(document) on its own, of a document the store hands   *)
(* back.                                                                   *)
Reverse ==
  \E d \in Documents :
    /\ conv' = Conversion("reverse", d, UserProfile_from(d, now), None)
    /\ UNCHANGED <<store, now, last, prev>>

(* UserProfile::from of the document the preceding forward conversion      *)
(* produced.                                                               *)
ReverseOfForward ==
  /\ conv.op = "forward"
  /\ conv' = Conversion("reverse", conv.result, UserProfile_from(conv.result, now),
                        Some(conv.arg))
  /\ UNCHANGED <<store, now, last, prev>>

----------------------------------------------------------------------------
(* The schema and the settings built from it. *)

(* The schema with fid left out of the filterable attributes. *)
get_user_profile_schema_no_fid ==
  [index |-> Some([name |-> "user_profiles", primary_key |-> "id"]),
   searchable |-> Some([attributes |->
      <<"username", "display_name", "bio", "location", "twitter", "github", "fid">>]),
   ranking |-> Some([rules |->
      <<"words", "typo", "proximity", "attribute", "sort", "exactness">>]),
   distinct_attribute |-> "username",
   filterable |-> Some([attributes |-> <<>>]),
   sortable |-> Some([attributes |-> <<"fid", "updated_at">>])]

get_user_profile_schema ==
  [index |-> Some([name |-> "user_profiles", primary_key |-> "id"]),
   searchable |-> Some([attributes |->
      <<"username", "display_name", "bio", "location", "twitter", "github", "fid">>]),
   ranking |-> Some([rules |->
      <<"words", "typo", "proximity", "attribute", "sort", "exactness">>]),
   distinct_attribute |-> "username",
   filterable |-> Some([attributes |-> <<"fid">>]),
   sortable |-> Some([attributes |-> <<"fid", "updated_at">>])]

(* Settings::new() and the with_* calls of apply_user_profile_schema: a    *)
(* group the schema lacks is left unset.                                   *)
BuildSettings(schema) ==
  [searchable_attributes |->
     IF schema.searchable.some THEN Some(schema.searchable.val.attributes) ELSE None,
   ranking_rules |->
     IF schema.ranking.some THEN Some(schema.ranking.val.rules) ELSE None,
   distinct_attribute |->
     IF schema.distinct_attribute # "" THEN Some(schema.distinct_attribute) ELSE None,
   filterable_attributes |->
     IF schema.filterable.some THEN Some(schema.filterable.val.attributes) ELSE None,
   sortable_attributes |->
     IF schema.sortable.some THEN Some(schema.sortable.val.attributes) ELSE None]

----------------------------------------------------------------------------
(* The store's side of the four calls: the errors it reports and what a    *)
(* successful call does to it.                                             *)

INDEX_ALREADY_EXISTS ==
  <<"i", "n", "d", "e", "x", "_", "a", "l", "r", "e", "a", "d", "y", "_", "e", "x", "i", "s", "t", "s">>

AlreadyExistsError ==
  [kind |-> "Meilisearch",
   type |-> <<"i", "n", "v", "a", "l", "i", "d", "_", "r", "e", "q", "u", "e", "s", "t">>,
   code |-> INDEX_ALREADY_EXISTS,
   message |-> <<"I", "n", "d", "e", "x", " ", "u", "s", "e", "r", "_", "p", "r", "o", "f", "i", "l", "e", "s", " ", "a", "l", "r", "e", "a", "d", "y", " ", "e", "x", "i", "s", "t", "s", ".">>]

IndexNotFoundError ==
  [kind |-> "Meilisearch",
   type |-> <<"i", "n", "v", "a", "l", "i", "d", "_", "r", "e", "q", "u", "e", "s", "t">>,
   code |-> <<"i", "n", "d", "e", "x", "_", "n", "o", "t", "_", "f", "o", "u", "n", "d">>,
   message |-> <<"I", "n", "d", "e", "x", " ", "u", "s", "e", "r", "_", "p", "r", "o", "f", "i", "l", "e", "s", " ", "n", "o", "t", " ", "f", "o", "u", "n", "d", ".">>]

InvalidApiKeyError ==
  [kind |-> "Meilisearch",
   type |-> <<"a", "u", "t", "h">>,
   code |-> <<"i", "n", "v", "a", "l", "i", "d", "_", "a", "p", "i", "_", "k", "e", "y">>,
   message |-> <<"T", "h", "e", " ", "p", "r", "o", "v", "i", "d", "e", "d", " ", "A", "P", "I", " ", "k", "e", "y", " ", "i", "s", " ", "i", "n", "v", "a", "l", "i", "d", ".">>]

HttpError ==
  [kind |-> "Http",
   message |-> <<"c", "o", "n", "n", "e", "c", "t", "i", "o", "n", " ", "r", "e", "f", "u", "s", "e", "d">>]

(* e.to_string() of a client error. *)
error_to_string(e) ==
  IF e.kind = "Meilisearch"
  THEN <<"M", "e", "i", "l", "i", "s", "e", "a", "r", "c", "h", " ">>
         \o e.type \o <<":", " ">> \o e.code \o <<":", " ">> \o e.message
  ELSE <<"H", "T", "T", "P", " ", "r", "e", "q", "u", "e", "s", "t", " ", "f", "a", "i", "l", "e", "d", ":", " ">>
         \o e.message

CreateIndexOutcomes(st) ==
  (IF st.index THEN {Err(AlreadyExistsError)} ELSE {Ok("task")})
    \cup {Err(HttpError), Err(InvalidApiKeyError)}

SetSettingsOutcomes == {Ok("task"), Err(HttpError)}

AddOrUpdateOutcomes == {Ok("task"), Err(HttpError)}

(* add_or_update of one document: a field the document omits (serde skips  *)
(* an Option that is None) keeps the value the stored document has.        *)
MergeDocument(old, new) ==
  [f \in DOMAIN new |-> IF f \in OptNames /\ ~new[f].some THEN old[f] ELSE new[f]]

PutDocument(docs, d, merge) ==
  IF \E i \in 1..Len(docs) : docs[i].id = d.id
  THEN [i \in 1..Len(docs) |->
          IF docs[i].id = d.id
          THEN (IF merge THEN MergeDocument(docs[i], d) ELSE d)
          ELSE docs[i]]
  ELSE Append(docs, d)

RECURSIVE PutDocuments(_, _)
PutDocuments(docs, new) ==
  IF new = <<>> THEN docs
  ELSE PutDocuments(PutDocument(docs, Head(new), TRUE), Tail(new))

FilterMatches(d, filter) ==
  \/ ~filter.some
  \/ filter.val = "fid = 1" /\ d.fid = U64FromNat(1)
  \/ filter.val = "fid = 2" /\ d.fid = U64FromNat(2)

QueryMatches(d, query) ==
  \/ query = ""
  \/ \E f \in {"username", "display_name", "bio", "location", "twitter", "github"} :
       d[f] = Some(query)

RECURSIVE Select(_, _)
Select(docs, req) ==
  IF docs = <<>> THEN <<>>
  ELSE IF QueryMatches(Head(docs), req.query) /\ FilterMatches(Head(docs), req.filter)
  THEN <<Head(docs)>> \o Select(Tail(docs), req)
  ELSE Select(Tail(docs), req)

(* The hits of a search: the matching documents in the store's order,      *)
(* after the offset and up to the limit when the request sets them.        *)
Hits(st, req) ==
  LET all  == Select(st.docs, req)
      from == IF req.offset.some THEN req.offset.val + 1 ELSE 1
      rest == SubSeq(all, from, Len(all))
  IN  IF req.limit.some /\ req.limit.val < Len(rest)
      THEN SubSeq(rest, 1, req.limit.val)
      ELSE rest

SearchOutcomes(st, req) ==
  (IF st.index THEN {Ok(Hits(st, req))} ELSE {Err(IndexNotFoundError)})
    \cup {Err(HttpError)}

----------------------------------------------------------------------------
(* The three operations.  Each takes the store and the outcomes of the     *)
(* store calls it may issue and returns the store afterwards, its result,  *)
(* the calls it issued and the tracing events it emitted.                  *)

Client(msg) == [variant |-> "Client", msg |-> msg]

Schema(msg) == [variant |-> "Schema", msg |-> msg]

Event(level, line) == [level |-> level, line |-> line]

(* The test never takes a create_index error for "already exists". *)
IsAlreadyExists_never(e) == FALSE

(* The test takes every create_index error for "already exists". *)
IsAlreadyExists_always(e) == TRUE

(* e.to_string().contains("index_already_exists") *)
IsAlreadyExists(e) == contains(error_to_string(e), INDEX_ALREADY_EXISTS)

apply_user_profile_schema(st, created, configured) ==
  LET schema == get_user_profile_schema
      start  == <<Event("INFO", 116)>>
  IN  IF ~schema.index.some
      THEN [store |-> st, result |-> Err(Schema("No index settings provided")),
            calls |-> <<>>, logs |-> start]
      ELSE
        LET index_name  == schema.index.val.name
            primary_key == schema.index.val.primary_key
            create == [call |-> "create_index", name |-> index_name,
                       primary_key |-> primary_key, outcome |-> created]
            st1    == IF created.ok THEN [st EXCEPT !.index = TRUE] ELSE st
            logs1  == IF created.ok THEN start \o <<Event("INFO", 133)>> ELSE start
        IN  IF ~created.ok /\ ~IsAlreadyExists(created.err)
            THEN [store |-> st1, result |-> Err(Client(error_to_string(created.err))),
                  calls |-> <<create>>, logs |-> logs1]
            ELSE
              LET settings == BuildSettings(schema)
                  set == [call |-> "set_settings", name |-> index_name,
                          settings |-> settings, outcome |-> configured]
              IN  IF configured.ok
                  THEN [store |-> [st1 EXCEPT !.settings = Some(settings)],
                        result |-> Ok(<<>>),
                        calls |-> <<create, set>>,
                        logs |-> logs1 \o <<Event("INFO", 190)>>]
                  ELSE [store |-> st1,
                        result |-> Err(Client(error_to_string(configured.err))),
                        calls |-> <<create, set>>,
                        logs |-> logs1 \o <<Event("ERROR", 197)>>]

(* batch_create_user_profiles issuing the write a second time when the    *)
(* first fails.                                                            *)
batch_create_user_profiles_retry(st, profiles, written) ==
  LET documents == [i \in 1..Len(profiles) |-> UserProfileDocument_from(profiles[i])]
      write == [call |-> "add_or_update", name |-> "user_profiles",
                documents |-> documents, primary_key |-> "id", outcome |-> written]
  IN  IF written.ok
      THEN [store |-> [st EXCEPT !.index = TRUE, !.docs = PutDocuments(st.docs, documents)],
            result |-> Ok(<<>>),
            calls |-> <<write>>,
            logs |-> <<Event("INFO", 274)>>]
      ELSE [store |-> st,
            result |-> Err(Client(error_to_string(written.err))),
            calls |-> <<write, write>>,
            logs |-> <<Event("ERROR", 282)>>]

batch_create_user_profiles(st, profiles, written) ==
  LET documents == [i \in 1..Len(profiles) |-> UserProfileDocument_from(profiles[i])]
      write == [call |-> "add_or_update", name |-> "user_profiles",
                documents |-> documents, primary_key |-> "id", outcome |-> written]
  IN  IF written.ok
      THEN [store |-> [st EXCEPT !.index = TRUE, !.docs = PutDocuments(st.docs, documents)],
            result |-> Ok(<<>>),
            calls |-> <<write>>,
            logs |-> <<Event("INFO", 274)>>]
      ELSE [store |-> st,
            result |-> Err(Client(error_to_string(written.err))),
            calls |-> <<write>>,
            logs |-> <<Event("ERROR", 282)>>]

search_user_profiles(st, req, found, clock) ==
  LET search == [call |-> "search", name |-> "user_profiles", query |-> req.query,
                 limit |-> req.limit, offset |-> req.offset, filter |-> req.filter,
                 outcome |-> found]
  IN  IF found.ok
      THEN [store |-> st,
            result |-> Ok([i \in 1..Len(found.val) |-> UserProfile_from(found.val[i], clock)]),
            calls |-> <<search>>,
            logs |-> <<>>]
      ELSE [store |-> st,
            result |-> Err(Client(error_to_string(found.err))),
            calls |-> <<search>>,
            logs |-> <<Event("ERROR", 327)>>]

----------------------------------------------------------------------------
(* The inputs of the operations. *)

MaxBatch == 2

Alice ==
  UserProfile("1", U64FromNat(1),
              [AllNone EXCEPT !["display_name"] = Some("Alice"), !["username"] = Some("alice"),
                              !["bio"] = Some("I love Farcaster!"),
                              !["twitter"] = Some("alice_twitter")],
              U64FromNat(1646092800))

Bob ==
  UserProfile("2", U64FromNat(2),
              [AllNone EXCEPT !["display_name"] = Some("Bob"), !["username"] = Some("bob"),
                              !["bio"] = Some("Web3 enthusiast"),
                              !["github"] = Some("bob_github")],
              U64FromNat(1646179200))

(* Alice again, later, with only her location set. *)
AliceMoved ==
  UserProfile("1", U64FromNat(1), [AllNone EXCEPT !["location"] = Some("Lisbon")],
              U64FromNat(1646265600))

ProfilePool == {Alice, Bob, AliceMoved}

RECURSIVE SeqsUpTo(_, _)
(* The sequences of at most n distinct elements of S. *)
SeqsUpTo(S, n) ==
  IF n = 0 THEN {<<>>}
  ELSE LET shorter == SeqsUpTo(S, n - 1)
       IN  shorter \cup {Append(qx[1], qx[2]) :
                           qx \in {c \in shorter \X S :
                                     \A i \in 1..Len(c[1]) : c[1][i] # c[2]}}

Batches == SeqsUpTo(ProfilePool, MaxBatch)

SearchRequest(query, limit, offset, filter) ==
  [query |-> query, limit |-> limit, offset |-> offset, filter |-> filter]

SearchRequests ==
  { SearchRequest("", None, None, None),
    SearchRequest("", Some(10), None, None),
    SearchRequest("", Some(1), None, None),
    SearchRequest("", Some(10), Some(1), None),
    SearchRequest("bob", None, None, None),
    SearchRequest("", None, None, Some("fid = 1")) }

(* A document another writer of the same index put there. *)
OtherDocuments ==
  { UserProfileDocument("2", U64FromNat(2), [AllNone EXCEPT !["username"] = Some("bob")],
                        NOT_A_TIMESTAMP) }

----------------------------------------------------------------------------
(* Actions of the store operations. *)

Record(op, arg, run) ==
  /\ store' = run.store
  /\ last' = Invocation(op, arg, run.result, run.calls, run.logs)
  /\ prev' = Summary(last)
  /\ UNCHANGED <<now, conv>>

ApplySchema ==
  \E created \in CreateIndexOutcomes(store), configured \in SetSettingsOutcomes :
    Record("apply_schema", <<>>, apply_user_profile_schema(store, created, configured))

BatchCreate ==
  \E profiles \in Batches, written \in AddOrUpdateOutcomes :
    Record("batch_create", profiles, batch_create_user_profiles(store, profiles, written))

Search ==
  \E req \in SearchRequests :
    \E found \in SearchOutcomes(store, req) :
      Record("search", req, search_user_profiles(store, req, found, now))

(* Another writer replaces or adds one document of the index. *)
OtherWriter ==
  \E d \in OtherDocuments :
    /\ store.index
    /\ store' = [store EXCEPT !.docs = PutDocument(store.docs, d, FALSE)]
    /\ last' = Invocation("other_writer", d, Ok(<<>>), <<>>, <<>>)
    /\ prev' = Summary(last)
    /\ UNCHANGED <<now, conv>>

Next == ApplySchema \/ BatchCreate \/ Search \/ OtherWriter

Spec == Init /\ [][Next]_vars

NextConv == Tick \/ Forward \/ Reverse \/ ReverseOfForward

SpecConv == Init /\ [][NextConv]_vars

----------------------------------------------------------------------------
(* Properties of the conversions. *)

Formats == {FMT_F_COLON, FMT_F_PLAIN, FMT_COLON, FMT_PLAIN}

(* s is a date-time one of the four fallback patterns accepts. *)
MatchesPattern(s) == \E fmt \in Formats : parse_from_str(s, fmt).ok

(* The instant such a string denotes, in epoch seconds. *)
InstantOf(s) == parse_from_str(s, FMT_F_COLON).val

(* Step 2 of the chain yields nothing for s. *)
NoDateTime(s) ==
  \/ ~(contains(s, <<"T">>) /\ contains(s, <<"+">>))
  \/ ~parse_from_rfc3339(s).ok /\ ~MatchesPattern(s)

SameButUpdatedAt(profile, doc) ==
  /\ profile.id = doc.id
  /\ profile.fid = doc.fid
  /\ \A f \in OptNames : profile[f] = doc[f]

(* C1: a profile converted to a document and that document converted back  *)
(* is the profile again, in every field; the decimal string the forward    *)
(* conversion wrote is taken by step 1 (parse::<u64>) of the chain.        *)
C1_RoundTrip ==
  (conv.op = "reverse" /\ conv.of.some) =>
     /\ conv.result = conv.of.val
     /\ parse_u64(conv.arg.updated_at) = Ok(conv.of.val.updated_at)

C1_Witness ==
  /\ conv.op = "reverse" /\ conv.of.some
  /\ conv.of.val.updated_at = U64_MAX
  /\ conv.of.val.username = None
  /\ conv.of.val.display_name = Some("display_name")
  /\ conv.result = conv.of.val

(* C2: a document whose updated_at is not an unsigned integer but matches  *)
(* one of the four offset-qualified patterns, with either sign of offset   *)
(* (and an instant not before the epoch), converts to that instant's epoch *)
(* seconds, never to the wall clock.                                       *)
C2_OffsetDateTimesParsed ==
  (/\ conv.op = "reverse"
   /\ ~parse_u64(conv.arg.updated_at).ok
   /\ MatchesPattern(conv.arg.updated_at)
   /\ InstantOf(conv.arg.updated_at) >= 0) =>
     conv.result.updated_at = U64FromNat(InstantOf(conv.arg.updated_at))

(* C3: when step 1 and step 2 both yield nothing the conversion still      *)
(* returns a profile: updated_at is the wall clock read at the conversion  *)
(* and every other field is the document's; "not-a-timestamp" and the      *)
(* empty string are such documents.                                        *)
C3_FallbackToClock ==
  (conv.op = "reverse") =>
     /\ SameButUpdatedAt(conv.result, conv.arg)
     /\ (~parse_u64(conv.arg.updated_at).ok /\ NoDateTime(conv.arg.updated_at)) =>
           conv.result.updated_at = as_u64(conv.clock)
     /\ conv.arg.updated_at \in {NOT_A_TIMESTAMP, <<>>} =>
           conv.result.updated_at = as_u64(conv.clock)

C3_Witness ==
  /\ conv.op = "reverse"
  /\ conv.arg.updated_at = NOT_A_TIMESTAMP
  /\ conv.arg.bio = None /\ conv.arg.url = Some("url")
  /\ conv.clock = NowStart + 1
  /\ conv.result.updated_at = as_u64(NowStart + 1)

(* C4: a conversion that substitutes the wall clock, on its own or for a   *)
(* hit of a search, emits an event of warning level or above.              *)
C4_FallbackIsLogged ==
  /\ (conv.op = "reverse" /\ ~parse_updated_at(conv.arg.updated_at).ok) =>
        \E i \in 1..Len(conv.logs) : conv.logs[i].level \in {"WARN", "ERROR"}
  /\ (/\ last.op = "search" /\ last.result.ok
      /\ \E h \in 1..Len(last.calls[1].outcome.val) :
           ~parse_updated_at(last.calls[1].outcome.val[h].updated_at).ok) =>
        \E i \in 1..Len(last.logs) : last.logs[i].level \in {"WARN", "ERROR"}

----------------------------------------------------------------------------
(* Properties of the store operations. *)

InSeq(x, q) == \E i \in 1..Len(q) : q[i] = x

CallNames(inv) == [i \in 1..Len(inv.calls) |-> inv.calls[i].call]

(* The outcome of the invocation's create_index is a failure other than    *)
(* "index already exists".                                                 *)
CreateFailed(inv) ==
  /\ ~inv.calls[1].outcome.ok
  /\ inv.calls[1].outcome.err # AlreadyExistsError

(* C5: apply_schema called right after apply_schema, when create_index     *)
(* reports that the index already exists and the settings push succeeds,   *)
(* succeeds, and the settings are pushed on that call too.                 *)
C5_SecondApplySucceeds ==
  (/\ prev.op = "apply_schema" /\ last.op = "apply_schema"
   /\ last.calls[1].outcome = Err(AlreadyExistsError)
   /\ Len(last.calls) = 2 => last.calls[2].outcome.ok) =>
     /\ last.result = Ok(<<>>)
     /\ CallNames(last) = <<"create_index", "set_settings">>
     /\ last.calls[2].settings = BuildSettings(get_user_profile_schema)
     /\ store.settings = Some(BuildSettings(get_user_profile_schema))

C5_Witness ==
  /\ prev = [op |-> "apply_schema", ok |-> TRUE]
  /\ last.op = "apply_schema"
  /\ last.calls[1].outcome = Err(AlreadyExistsError)
  /\ last.result = Ok(<<>>)

(* C6: apply_schema returns the Client error made of the store's message   *)
(* exactly when create_index fails other than with "already exists" (and   *)
(* then no set_settings is issued) or set_settings fails; otherwise it     *)
(* returns Ok.                                                             *)
C6_ApplyErrors ==
  (last.op = "apply_schema") =>
     IF CreateFailed(last)
     THEN /\ last.result = Err(Client(error_to_string(last.calls[1].outcome.err)))
          /\ contains(last.result.err.msg, last.calls[1].outcome.err.message)
          /\ CallNames(last) = <<"create_index">>
     ELSE /\ CallNames(last) = <<"create_index", "set_settings">>
          /\ IF last.calls[2].outcome.ok
             THEN last.result = Ok(<<>>)
             ELSE /\ last.result = Err(Client(error_to_string(last.calls[2].outcome.err)))
                  /\ contains(last.result.err.msg, last.calls[2].outcome.err.message)

C6_Witness ==
  /\ last.op = "apply_schema"
  /\ last.calls[1].outcome = Err(InvalidApiKeyError)
  /\ ~last.result.ok
  /\ Len(last.calls) = 1
  /\ ~store.settings.some

(* C7: batch_create of no profiles returns Ok and leaves the store's        *)
(* documents as they were, whatever the store does.                        *)
C7_EmptyBatchAlwaysOk ==
  [][(last'.op = "batch_create" /\ last'.arg = <<>>) =>
       /\ last'.result.ok
       /\ store'.docs = store.docs]_vars

DistinctIds(profiles) ==
  \A i, j \in 1..Len(profiles) : profiles[i].id = profiles[j].id => i = j

(* A search of everything: empty query, no filter, no offset. *)
SearchesAll(req) == req.query = "" /\ ~req.filter.some /\ ~req.offset.some

(* Every profile of the batch is among the results, by id, with the fid    *)
(* and the updated_at it was written with and every optional field it      *)
(* sets.                                                                   *)
AllReturned(profiles, results) ==
  \A i \in 1..Len(profiles) :
    \E j \in 1..Len(results) :
      /\ results[j].id = profiles[i].id
      /\ results[j].fid = profiles[i].fid
      /\ results[j].updated_at = profiles[i].updated_at
      /\ \A f \in OptNames : profiles[i][f].some => results[j][f] = profiles[i][f]

C9_SchemaShape ==
  /\ get_user_profile_schema.searchable.some
  /\ get_user_profile_schema.searchable.val.attributes # <<>>
  /\ get_user_profile_schema.ranking.some
  /\ get_user_profile_schema.ranking.val.rules # <<>>
  /\ get_user_profile_schema.distinct_attribute # ""
  /\ get_user_profile_schema.filterable.some
  /\ InSeq("fid", get_user_profile_schema.filterable.val.attributes)
  /\ get_user_profile_schema.sortable.some
  /\ InSeq("fid", get_user_profile_schema.sortable.val.attributes)
  /\ store.settings.some =>
       /\ store.settings.val.searchable_attributes.some
       /\ store.settings.val.searchable_attributes.val # <<>>
       /\ store.settings.val.ranking_rules.some
       /\ store.settings.val.ranking_rules.val # <<>>
       /\ store.settings.val.distinct_attribute.some
       /\ store.settings.val.filterable_attributes.some
       /\ InSeq("fid", store.settings.val.filterable_attributes.val)
       /\ store.settings.val.sortable_attributes.some
       /\ InSeq("fid", store.settings.val.sortable_attributes.val)

C9_Witness ==
  /\ last.op = "apply_schema" /\ last.result.ok
  /\ store.settings.some
  /\ store.settings.val.distinct_attribute = Some("username")
  /\ store.settings.val.filterable_attributes = Some(<<"fid">>)

(* A call of the invocation failed, other than create_index reporting that *)
(* the index already exists.                                               *)
FailedCall(inv, i) ==
  /\ ~inv.calls[i].outcome.ok
  /\ ~(inv.calls[i].call = "create_index" /\ inv.calls[i].outcome.err = AlreadyExistsError)

(* C10: no invocation repeats a store call: apply_schema issues            *)
(* create_index once and set_settings at most once, batch_create one       *)
(* add_or_update, search one search; a failed call is the invocation's     *)
(* last, and the invocation returns the Client error of its message.       *)
C10_NoRetry ==
  /\ last.op = "apply_schema" =>
       CallNames(last) \in {<<"create_index">>, <<"create_index", "set_settings">>}
  /\ last.op = "batch_create" => CallNames(last) = <<"add_or_update">>
  /\ last.op = "search" => CallNames(last) = <<"search">>
  /\ \A i \in 1..Len(last.calls) :
       FailedCall(last, i) =>
         /\ i = Len(last.calls)
         /\ last.result = Err(Client(error_to_string(last.calls[i].outcome.err)))

C10_Witness ==
  /\ last.op = "apply_schema"
  /\ Len(last.calls) = 2
  /\ last.calls[1].outcome.ok
  /\ last.calls[2].outcome = Err(HttpError)
  /\ last.result = Err(Client(error_to_string(HttpError)))

=============================================================================
